---- MODULE Spec2Model ----
(***************************************************************************)
(* HubService: the session bridge between the platform and the hub.       *)
(* The service holds one Optional[HubSession]; connect / disconnect move   *)
(* it between None (ABSENT) and a HubSession (ACTIVE); _get_user_settings   *)
(* and _put_user_settings perform authenticated calls with the session     *)
(* handed to them; hub2platform / platform2hub translate between the hub's *)
(* FeaturesKeys names and the platform's Credentials names.                *)
(*                                                                         *)
(* The operations are modelled from tests/app/service/test_hub_service.py   *)
(* where the tests pin them down (the 200 answers, the key table), and     *)
(* from spec.md sections 4.1 and 7 elsewhere (the failure paths).          *)
(***************************************************************************)
EXTENDS Integers, Sequences, FiniteSets, TLC

VARIABLES
    session,    \* HubService.session: None or Some(HubSession)
    op,         \* the operation performed last
    before,     \* HubService.session as it was when that operation started
    args,       \* the arguments that operation was called with
    response,   \* the hub's answer to its remote call, None when none was made
    calls,      \* the number of remote calls the operation made
    raised,     \* None, or Some(error) when the operation raised
    returned    \* None, or Some(value) when the operation returned

vars == <<session, op, before, args, response, calls, raised, returned>>

----------------------------------------------------------------------------
\* Optional[T]: None is the empty tuple, a present value a 1-tuple.
None == <<>>
Some(x) == <<x>>

\* Bound of the model: the number of distinct access tokens the hub hands out.
MaxTokens == 2
Tokens == 1 .. MaxTokens

\* status_code=200 of the mocked responses.
HTTP_OK == 200
\* Answers other than 200 (unauthorised, server error).
StatusCodes == {HTTP_OK, 401, 500}

\* HubSession(access_token=SecretStr("token"), token_type="Bearer")
HubSession(t) == [access_token |-> t, token_type |-> "Bearer"]
Sessions == {HubSession(t) : t \in Tokens}
OptSessions == {None} \cup {Some(s) : s \in Sessions}

\* Arguments of connect(): each is None or a value.
Emails == {None, Some("test@example.com")}
Passwords == {None, Some("password")}
Pats == {None, Some("pat")}

\* OpenBBError(match="Please provide 'email' and 'password' or 'pat'")
NoCredentialsMessage_other == "Please provide credentials"
NoCredentialsMessage == "Please provide 'email' and 'password' or 'pat'"

----------------------------------------------------------------------------
\* Results of an operation.
Return(v) == [raised |-> None, returned |-> Some(v)]
Raise(kind, message) ==
    [raised |-> Some([kind |-> kind, message |-> message]), returned |-> None]

----------------------------------------------------------------------------
\* FeaturesKeys <-> Credentials

\* The hub-side and platform-side names of the provider keys the tests use,
\* in the order of the table, as (hub name, platform name) pairs.
V3TOV4_fred_as_polygon ==
    << <<"API_KEY_FINANCIALMODELINGPREP", "fmp_api_key">>,
       <<"API_POLYGON_KEY", "polygon_api_key">>,
       <<"API_FRED_KEY", "polygon_api_key">> >>
V3TOV4_swapped ==
    << <<"API_KEY_FINANCIALMODELINGPREP", "fmp_api_key">>,
       <<"API_POLYGON_KEY", "fred_api_key">>,
       <<"API_FRED_KEY", "polygon_api_key">> >>
V3TOV4 ==
    << <<"API_KEY_FINANCIALMODELINGPREP", "fmp_api_key">>,
       <<"API_POLYGON_KEY", "polygon_api_key">>,
       <<"API_FRED_KEY", "fred_api_key">> >>

\* A field of FeaturesKeys, and one of Credentials, that the table does not
\* name: they stand for every field outside the table.
UnmappedHubFields == {"API_UNMAPPED_KEY"}
UnmappedLocalFields == {"unmapped_api_key"}

KnownHubFields == {"API_KEY_FINANCIALMODELINGPREP", "API_POLYGON_KEY", "API_FRED_KEY"}
KnownLocalFields == {"fmp_api_key", "polygon_api_key", "fred_api_key"}
HubFields == KnownHubFields \cup UnmappedHubFields
LocalFields == KnownLocalFields \cup UnmappedLocalFields

\* The values a key takes: unset (None) or one of the secrets of the tests.
NoValue == "None"
SecretValues == {"fmp", "polygon"}
Values == {NoValue} \cup SecretValues

\* FeaturesKeys(...) and Credentials(...): every field is optional.
FeaturesKeys == [HubFields -> Values]
Credentials == [LocalFields -> Values]
EmptyFeaturesKeys == [k \in HubFields |-> NoValue]
EmptyCredentials == [k \in LocalFields |-> NoValue]

\* for src, dst in table[i..]: setattr(target, dst, getattr(source, src)),
\* skipping names the target record does not have.
RECURSIVE CopyFields(_, _, _, _, _, _)
CopyFields(table, i, from, to, source, target) ==
    IF i > Len(table) THEN target
    ELSE LET src == table[i][from]
             dst == table[i][to]
             next == IF src \in DOMAIN source /\ dst \in DOMAIN target
                     THEN [target EXCEPT ![dst] = source[src]]
                     ELSE target
         IN  CopyFields(table, i + 1, from, to, source, next)

\* HubService.hub2platform(settings) -> Credentials
hub2platform(features_keys) ==
    CopyFields(V3TOV4, 1, 1, 2, features_keys, EmptyCredentials)

\* HubService.platform2hub(credentials) -> HubUserSettings.features_keys
platform2hub(credentials) ==
    CopyFields(V3TOV4, 1, 2, 1, credentials, EmptyFeaturesKeys)

----------------------------------------------------------------------------
\* The hub's answers.

\* A 200 answer to a login request: the token payload.
LoginAnswers ==
    {[status_code |-> HTTP_OK, json |-> HubSession(t)] : t \in Tokens}
\* A 200 answer to the logout request: json=lambda: {"success": True}.
LogoutAnswers == {[status_code |-> HTTP_OK, json |-> [success |-> TRUE]]}
\* A 200 answer to GET user settings: the features keys stored on the hub.
SettingsAnswers ==
    {[status_code |-> HTTP_OK, json |-> f] : f \in FeaturesKeys}
\* A 200 answer to PUT user settings.
PutAnswers == {[status_code |-> HTTP_OK, json |-> None]}
\* Any other answer carries the server's message.
Refusals ==
    {[status_code |-> c, json |-> [detail |-> "detail"]] :
        c \in StatusCodes \ {HTTP_OK}}

NoArgs ==
    [email |-> None, password |-> None, pat |-> None,
     session |-> None, user_settings |-> None, credentials |-> None]

\* What every operation records: its name, arguments, the answer it got, the
\* session it started from, its result and the session it leaves.
Done(name, a, answer, ncalls, result, held) ==
    /\ op' = name
    /\ args' = a
    /\ before' = session
    /\ response' = answer
    /\ calls' = ncalls
    /\ raised' = result.raised
    /\ returned' = result.returned
    /\ session' = held

----------------------------------------------------------------------------
\* connect(email, password, pat)

\* _get_session_from_email_password / _get_session_from_platform_token:
\* a 200 answer is parsed into a HubSession.
SessionFromAnswer(answer) == answer.json

\* hub_service.session after connect() returned hub_session.
HeldAfterConnect_forgotten(hub_session) == None
HeldAfterConnect(hub_session) == Some(hub_session)

\* The login answered 200: the session is stored and returned.
connect_ok(a, answer) ==
    LET hub_session == SessionFromAnswer(answer)
    IN  Done("connect", a, Some(answer), 1,
             Return(hub_session), HeldAfterConnect(hub_session))

\* The login answered something else: AuthenticationError with the server's
\* message, the held session untouched.
connect_refused(a, answer) ==
    Done("connect", a, Some(answer), 1,
         Raise("AuthenticationError", answer.json.detail), session)

\* Neither path is satisfiable: InvalidArgument, no call to the hub.
connect_without_credentials(a) ==
    Done("connect", a, None, 0,
         Raise("InvalidArgument", NoCredentialsMessage), session)

\* The email and password path, and the personal access token path.
HasEmailPassword(a) == a.email # None /\ a.password # None
HasPat(a) == a.pat # None

connect ==
    \E e \in Emails, p \in Passwords, t \in Pats :
        LET a == [NoArgs EXCEPT !.email = e, !.password = p, !.pat = t]
        IN  IF HasEmailPassword(a) /\ HasPat(a)
            THEN \* Both paths supplied: the spec says exactly one must be and
                 \* names no outcome, and no test makes this call; it may be
                 \* refused or served.
                 \/ connect_without_credentials(a)
                 \/ \E answer \in LoginAnswers : connect_ok(a, answer)
                 \/ \E answer \in Refusals : connect_refused(a, answer)
            ELSE IF HasEmailPassword(a) \/ HasPat(a)
            THEN \/ \E answer \in LoginAnswers : connect_ok(a, answer)
                 \/ \E answer \in Refusals : connect_refused(a, answer)
            ELSE connect_without_credentials(a)

----------------------------------------------------------------------------
\* disconnect()

\* hub_service.session after disconnect().
HeldAfterDisconnect_kept == session
HeldAfterDisconnect == None

\* The value disconnect() returns for the logout endpoint's answer.
LogoutResult(answer) == answer.status_code = HTTP_OK

\* A session is held: the logout endpoint is called with its token and the
\* held session is cleared whatever the answer.
disconnect_active(answer) ==
    Done("disconnect", NoArgs, Some(answer), 1,
         Return(LogoutResult(answer)), HeldAfterDisconnect)

\* No session is held: nothing is called, nothing changes, nothing is raised.
disconnect_absent_raises ==
    Done("disconnect", NoArgs, None, 0,
         Raise("AuthenticationError", "No session found."), session)
disconnect_absent ==
    Done("disconnect", NoArgs, None, 0, Return(FALSE), session)

disconnect ==
    IF session # None
    THEN \E answer \in LogoutAnswers \cup Refusals : disconnect_active(answer)
    ELSE disconnect_absent

----------------------------------------------------------------------------
\* _get_user_settings(session) and _put_user_settings(session, settings)

\* The session whose token authorises the call: the one passed as argument
\* (the tests call both methods on HubService(), which holds none).
SessionUsed_held(session_arg) == session
SessionUsed(session_arg) == session_arg

\* The call is attempted without a session: AuthenticationError, no call.
NoSession(name, a) ==
    Done(name, a, None, 0,
         Raise("AuthenticationError", "No session found."), session)

\* The hub answered something other than 200: AuthenticationError with the
\* server's message; the held session is what it was.
Refused_clears(name, a, answer) ==
    Done(name, a, Some(answer), 1,
         Raise("AuthenticationError", answer.json.detail), None)
Refused(name, a, answer) ==
    Done(name, a, Some(answer), 1,
         Raise("AuthenticationError", answer.json.detail), session)

\* GET answered 200: the answer is parsed into the hub's user settings.
get_user_settings_ok(a, answer) ==
    Done("_get_user_settings", a, Some(answer), 1,
         Return([features_keys |-> answer.json]), session)

_get_user_settings ==
    \E s \in OptSessions :
        LET a == [NoArgs EXCEPT !.session = s]
        IN  IF SessionUsed(s) = None
            THEN NoSession("_get_user_settings", a)
            ELSE \/ \E answer \in SettingsAnswers : get_user_settings_ok(a, answer)
                 \/ \E answer \in Refusals :
                        Refused("_get_user_settings", a, answer)

\* PUT answered 200: True.
PutResult_false == FALSE
PutResult == TRUE

put_user_settings_ok(a, answer) ==
    Done("_put_user_settings", a, Some(answer), 1, Return(PutResult), session)

_put_user_settings ==
    \E s \in OptSessions, f \in FeaturesKeys :
        LET a == [NoArgs EXCEPT !.session = s,
                                !.user_settings = Some([features_keys |-> f])]
        IN  IF SessionUsed(s) = None
            THEN NoSession("_put_user_settings", a)
            ELSE \/ \E answer \in PutAnswers : put_user_settings_ok(a, answer)
                 \/ \E answer \in Refusals :
                        Refused("_put_user_settings", a, answer)

----------------------------------------------------------------------------
\* The two translations, called on the class: no session, no hub call.

call_hub2platform ==
    \E f \in FeaturesKeys :
        Done("hub2platform",
             [NoArgs EXCEPT !.user_settings = Some([features_keys |-> f])],
             None, 0, Return(hub2platform(f)), session)

call_platform2hub ==
    \E c \in Credentials :
        Done("platform2hub", [NoArgs EXCEPT !.credentials = Some(c)],
             None, 0, Return([features_keys |-> platform2hub(c)]), session)

----------------------------------------------------------------------------
\* HubService(session=None): the service starts with the session it is given.
Init ==
    /\ session \in OptSessions
    /\ op = "__init__"
    /\ before = session
    /\ args = [NoArgs EXCEPT !.session = session]
    /\ response = None
    /\ calls = 0
    /\ raised = None
    /\ returned = None

Next ==
    \/ connect
    \/ disconnect
    \/ _get_user_settings
    \/ _put_user_settings
    \/ call_hub2platform
    \/ call_platform2hub

Spec == Init /\ [][Next]_vars

----------------------------------------------------------------------------
\* Properties

StatusOf(answer) == answer[1].status_code
Answered(code) == response # None /\ StatusOf(response) = code
AnsweredNot(code) == response # None /\ StatusOf(response) # code
RaisedKind(kind) == raised # None /\ raised[1].kind = kind

\* C1: connect() with neither (email and password) nor a personal access
\* token raises InvalidArgument with the message "Please provide 'email' and
\* 'password' or 'pat'", calls the hub not at all and leaves the held session
\* as it was (ABSENT when it was ABSENT).
C1_ConnectWithoutCredentials ==
    (op = "connect" /\ ~HasEmailPassword(args) /\ ~HasPat(args)) =>
        /\ raised = Some([kind |-> "InvalidArgument",
                          message |-> "Please provide 'email' and 'password' or 'pat'"])
        /\ returned = None
        /\ calls = 0
        /\ response = None
        /\ session = before

C1_Witness ==
    /\ op = "connect"
    /\ args.email = None /\ args.password = None /\ args.pat = None
    /\ before = None
    /\ session = None
    /\ RaisedKind("InvalidArgument")

\* C2: a connect() that the hub answers with 200 returns a Session and the
\* bridge holds that same Session afterwards: from ABSENT it is ACTIVE.
C2_ConnectHoldsReturnedSession ==
    (op = "connect" /\ Answered(HTTP_OK)) =>
        /\ raised = None
        /\ returned # None
        /\ returned[1] \in Sessions
        /\ session = returned

C2_Witness ==
    /\ op = "connect"
    /\ args.pat # None /\ args.email = None /\ args.password = None
    /\ Answered(HTTP_OK)
    /\ before = None
    /\ session # None

C4_Hub2Platform ==
    op = "hub2platform" =>
        LET f == args.user_settings[1].features_keys
            c == returned[1]
        IN  /\ raised = None
            /\ DOMAIN c = LocalFields
            /\ c["fmp_api_key"] = f["API_KEY_FINANCIALMODELINGPREP"]
            /\ c["polygon_api_key"] = f["API_POLYGON_KEY"]
            /\ c["fred_api_key"] = f["API_FRED_KEY"]
            /\ \A k \in LocalFields \ {"fmp_api_key", "polygon_api_key", "fred_api_key"} :
                   c[k] = NoValue

C4_Witness ==
    /\ op = "hub2platform"
    /\ args.user_settings[1].features_keys["API_UNMAPPED_KEY"] # NoValue
    /\ args.user_settings[1].features_keys["API_POLYGON_KEY"] = "polygon"
    /\ args.user_settings[1].features_keys["API_FRED_KEY"] = "fmp"
    /\ args.user_settings[1].features_keys["API_KEY_FINANCIALMODELINGPREP"] = NoValue
    /\ returned[1]["polygon_api_key"] = "polygon"

\* C5: on records restricted to the known keys the two translations are
\* inverse to each other: hub2platform(platform2hub(c)) = c and
\* platform2hub(hub2platform(f)) = f.
C5_RoundTrip ==
    /\ op = "hub2platform" =>
           LET f == args.user_settings[1].features_keys
           IN  (\A k \in UnmappedHubFields : f[k] = NoValue) =>
                   platform2hub(returned[1]) = f
    /\ op = "platform2hub" =>
           LET c == args.credentials[1]
           IN  (\A k \in UnmappedLocalFields : c[k] = NoValue) =>
                   hub2platform(returned[1].features_keys) = c

C5_Witness ==
    /\ op = "platform2hub"
    /\ args.credentials[1]["unmapped_api_key"] = NoValue
    /\ args.credentials[1]["fmp_api_key"] = "fmp"
    /\ args.credentials[1]["polygon_api_key"] = "polygon"
    /\ args.credentials[1]["fred_api_key"] = "fmp"
    /\ returned[1].features_keys["API_FRED_KEY"] = "fmp"

SettingsOps == {"_get_user_settings", "_put_user_settings"}

\* C6, as stated: the session is ABSENT or ACTIVE, and pullSettings or
\* pushSettings invoked while the held session is ABSENT fails with an
\* AuthenticationError and leaves it ABSENT.
C6_Original ==
    /\ session \in OptSessions
    /\ (op \in SettingsOps /\ before = None) =>
           (RaisedKind("AuthenticationError") /\ session = None)

\* C6, amended: the session is ABSENT or ACTIVE; pullSettings and
\* pushSettings work with the session passed to them, not with the held one.
\* Invoked while the held session is ABSENT they leave it ABSENT; with no
\* session passed they raise AuthenticationError without calling the hub;
\* with a session passed they call the hub once and raise (an
\* AuthenticationError) exactly when the answer is not 200.
C6_SettingsOpsUsePassedSession ==
    /\ session \in OptSessions
    /\ (op \in SettingsOps /\ before = None) =>
           /\ session = None
           /\ args.session = None =>
                  (RaisedKind("AuthenticationError") /\ calls = 0)
           /\ args.session # None =>
                  /\ calls = 1
                  /\ raised = None <=> Answered(HTTP_OK)
                  /\ raised # None => RaisedKind("AuthenticationError")

C6_Witness ==
    /\ op = "_put_user_settings"
    /\ before = None
    /\ args.session # None
    /\ Answered(HTTP_OK)
    /\ returned = Some(TRUE)
    /\ session = None

\* C7: disconnect() while the session is ABSENT raises nothing, calls
\* nothing and leaves the session ABSENT.
C7_DisconnectAbsentNoOp ==
    (op = "disconnect" /\ before = None) =>
        /\ raised = None
        /\ calls = 0
        /\ response = None
        /\ session = None

C7_Witness ==
    /\ op = "disconnect"
    /\ before = None
    /\ session = None
    /\ raised = None

\* C8: pushSettings with an ACTIVE session returns true exactly when the PUT
\* is answered with 200, and the held session is what it was either way.
C8_PutReturnsTrueIff200 ==
    (op = "_put_user_settings" /\ args.session # None) =>
        /\ returned = Some(TRUE) <=> Answered(HTTP_OK)
        /\ session = before

C8_Witness ==
    /\ op = "_put_user_settings"
    /\ args.session # None
    /\ before = args.session
    /\ Answered(HTTP_OK)
    /\ returned = Some(TRUE)

\* C10: connect() or pullSettings() answered with something other than 200
\* raises AuthenticationError after that one call, returns nothing, and the
\* held session is exactly what it was before the call.
C10_FailedCallIsAtomic ==
    (op \in {"connect", "_get_user_settings"} /\ AnsweredNot(HTTP_OK)) =>
        /\ RaisedKind("AuthenticationError")
        /\ returned = None
        /\ calls = 1
        /\ session = before

C10_Witness ==
    /\ op = "_get_user_settings"
    /\ AnsweredNot(HTTP_OK)
    /\ before # None
    /\ session = before
    /\ RaisedKind("AuthenticationError")

====
